---------------------------- MODULE Spec2Model ----------------------------
(***************************************************************************)
(* A model of the string interner of src/src/lib.rs.                       *)
(*                                                                         *)
(* The interner holds `values : Vec<Box<str>>` (one heap allocation per    *)
(* interned text) and `map : HashMap<InternalStrRef, Sym, H>`, whose keys  *)
(* are raw `*const str` pointers compared and hashed by the bytes they     *)
(* point at.  Memory is therefore part of the state: every cell of `mem`   *)
(* has an owner and a content, a key is an address, and the content of a   *)
(* key is whatever is at that address when the key is read.  Reading a     *)
(* key whose cell has been freed is undefined behaviour and is modelled as *)
(* a read of any text.                                                     *)
(*                                                                         *)
(* The table keeps the hash computed when the key was inserted (lookups    *)
(* compare the stored hash before calling `eq`), so an entry carries it.   *)
(***************************************************************************)
EXTENDS Integers, Sequences, FiniteSets, TLC

VARIABLES
    mem,      \* address -> [owner, str]: the bytes of every text buffer
    hasher,   \* interner -> (text -> hash): the interner's BuildHasher H
    map,      \* interner -> set of [ptr, hash, sym]: the HashMap's entries
    values,   \* interner -> sequence of addresses: the Vec<Box<str>>
    ret,      \* the last call of an interner: arguments and what it returned
              \*   (for clear, outNum records how many entries it dropped)
    given,    \* interner -> {<<text, sym>>}: what get_or_intern returned
              \*   for which text since creation or the last clear
    readers,  \* reader -> the iterator or the read it is busy with
    symcap,   \* how many indices the symbol type Sym can represent
    stale,    \* {<<text, sym>>}: a symbol a caller still holds from before
              \*   the last clear, with the text it was returned for
    pc        \* where the program is: "run" between calls, "clear" between
              \*   the two statements of clear, "abort" after a panic

\* The variables the operations of one interner on usize symbols work on,
\* and the ones only some specifications below use.
core == <<mem, hasher, map, values, ret, given>>

aux == <<readers, symcap, stale, pc>>

vars == <<mem, hasher, map, values, ret, given, readers, symcap, stale, pc>>

---------------------------------------------------------------------------
\* Bounds of the model.

\* The texts the callers use; each is also a string literal.
StrTable == <<"a", "b">>

\* Entries the interners may hold.
MaxLen == 2

\* Heap addresses: one per entry, one for the caller's String and one more,
\* so that an allocation need not reuse an address a key still points at.
NumHeap == MaxLen + 2

Strings == {StrTable[k] : k \in 1..Len(StrTable)}

Interners == {1, 2}

Readers == {1, 2}

\* A string literal lives in static memory: address k holds the k-th text.
StaticAddrs == 1..Len(StrTable)

HeapAddrs == (Len(StrTable) + 1)..(Len(StrTable) + NumHeap)

Addrs == StaticAddrs \cup HeapAddrs

\* A lookup depends on the hasher only through which texts collide, so
\* there are as many hash values as texts and a hasher is taken up to the
\* names of its values: the k-th text hashes to one of the values of the
\* texts before it, or to the next unused value.
Hashes == 1..Len(StrTable)

MaxHash(h, k) == IF k = 0 THEN 0 ELSE CHOOSE x \in Hashes :
                    /\ \E j \in 1..k : h[StrTable[j]] = x
                    /\ \A j \in 1..k : h[StrTable[j]] <= x

Hashers ==
    {h \in [Strings -> Hashes] :
        \A k \in 1..Len(StrTable) : h[StrTable[k]] <= MaxHash(h, k - 1) + 1}

\* Option<T>: None is the empty sequence, Some(x) the sequence of x.
None == << >>

Some(x) == <<x>>

FreeCell == [owner |-> "free", str |-> "freed"]

---------------------------------------------------------------------------
\* Symbol for usize: both conversions are the identity on usize.

from_usize(val) == val

to_usize(sym) == sym

\* The symbols callers pass to resolve: every index an interner can hold,
\* and one beyond.
Symbols == 0..MaxLen

---------------------------------------------------------------------------
\* InternalStrRef

\* InternalStrRef::from_str: wraps the address of the str it is given.
from_str(ptr) == ptr

\* The addresses that are read through a key and whose cell is free in m.
Dangling(m, ptrs) == {p \in ptrs : m[p].owner = "free"}

\* What the reads of freed cells may return, one choice per freed cell.
Views(m, ptrs) == [Dangling(m, ptrs) -> Strings]

\* InternalStrRef::as_str: the bytes at the address, in memory m.
as_str(m, ptr, rd) == IF m[ptr].owner = "free" THEN rd[ptr] ELSE m[ptr].str

KeyPtrs(i) == {e.ptr : e \in map[i]}

\* Hash for InternalStrRef: the hash of the bytes the key points at.
hash(i, m, ptr, rd) == hasher[i][as_str(m, ptr, rd)]

\* HashMap::get with a query key whose bytes read `text`: the entries with
\* the stored hash of `text` whose key compares equal (PartialEq for
\* InternalStrRef: by content).
MapGet(i, m, text, rd) ==
    {e \in map[i] : e.hash = hasher[i][text] /\ as_str(m, e.ptr, rd) = text}

---------------------------------------------------------------------------
\* The state of the interner seen through its fields.

len(i) == Len(values[i])

is_empty(i) == len(i) = 0

\* The text of entry k (0-based) of interner i.
TextAt(i, k) == mem[values[i][k + 1]].str

StoredTexts(i) == [k \in 1..len(i) |-> mem[values[i][k]].str]

make_symbol(i) == from_usize(len(i))

FreeAddrs == {a \in HeapAddrs : mem[a].owner = "free"}

Lowest(S) == {a \in S : \A c \in S : a <= c}

\* Where the allocator may place a new buffer.  Addresses are opaque, so of
\* the free addresses only two outcomes differ: the buffer reuses an address
\* that a key of some map still points at (the lowest free one is taken), or
\* it does not (the lowest free one no key points at is taken).
AllocPlaces ==
    Lowest(FreeAddrs)
        \cup Lowest(FreeAddrs \ UNION {{e.ptr : e \in map[i]} : i \in Interners})

CallerAddrs == {a \in HeapAddrs : mem[a].owner = "caller"}

\* A reader that holds no iterator and no result of a read.
Idle ==
    [op |-> "idle", of |-> 0, arg |-> << >>, pos |-> 0, boxes |-> << >>,
     out |-> << >>, done |-> FALSE]

\* usize represents every index an interner can reach: the vector cannot
\* hold as many entries as usize has values.
UsizeCap == MaxLen + 1

BaseRet(op, i) ==
    [op |-> op, who |-> i, text |-> None, sym |-> None,
     outSym |-> None, outText |-> None, outNum |-> None, outBool |-> None]

---------------------------------------------------------------------------
\* StringInterner::new / with_hasher: empty map, empty values.  The hasher
\* is any function of the text.
InitAny ==
    /\ mem = [a \in Addrs |->
                IF a \in StaticAddrs
                THEN [owner |-> "static", str |-> StrTable[a]]
                ELSE FreeCell]
    /\ hasher \in [Interners -> Hashers]
    /\ map = [i \in Interners |-> {}]
    /\ values = [i \in Interners |-> << >>]
    /\ ret = BaseRet("new", 1)
    /\ given = [i \in Interners |-> {}]
    /\ readers = [r \in Readers |-> Idle]
    /\ stale = {}
    /\ pc = "run"

\* StringInterner::<usize>::new()
Init == InitAny /\ symcap = UsizeCap

---------------------------------------------------------------------------
\* What a caller may pass as `val: T` (T: Into<String> + AsRef<str>):
\*   literal   a &'static str, at the literal's static address;
\*   borrowed  a &str into a String the caller keeps;
\*   owned     a String, moved into the call.
Inputs ==
    [kind : {"literal"}, at : StaticAddrs]
        \cup [kind : {"borrowed", "owned"}, at : CallerAddrs]

\* val.as_ref(): the address of the bytes of the input, and the bytes.
InputPtr(inp) == inp.at

InputText(inp) == mem[inp.at].str

BoxCell(text) == [owner |-> "box", str |-> text]

\* new_val.into().into_boxed_str(): where the owned entry may be placed.
\* A &str is copied into a new allocation.  A String keeps its buffer when
\* its capacity is its length, and is reallocated to its length otherwise,
\* which may or may not move it.
BoxPlaces(inp) ==
    IF inp.kind = "owned" THEN {inp.at} \cup AllocPlaces ELSE AllocPlaces

\* Memory after the entry has been placed at b.
MemAfterBox(inp, b) ==
    IF inp.kind = "owned"
    THEN IF b = inp.at
         THEN [mem EXCEPT ![b] = BoxCell(InputText(inp))]
         ELSE [mem EXCEPT ![inp.at] = FreeCell, ![b] = BoxCell(InputText(inp))]
    ELSE [mem EXCEPT ![b] = BoxCell(InputText(inp))]

\* Memory after a call that did not store its input: a String passed by
\* value is dropped at the end of the call.
MemAfterDrop(inp) ==
    IF inp.kind = "owned" THEN [mem EXCEPT ![inp.at] = FreeCell] ELSE mem

\* The key intern() inserts: made from new_val.as_ref(), before new_val is
\* converted into the owned entry placed at b.
NewRef(inp, b) == from_str(InputPtr(inp))

\* HashMap::insert(key, sym) in memory m: an entry whose key compares equal
\* keeps its key and takes the new value; otherwise the entry is added.
MapInsert(i, m, ptr, sym, rd) ==
    LET h    == hash(i, m, ptr, rd)
        same == {e \in map[i] : e.hash = h /\ as_str(m, e.ptr, rd) = as_str(m, ptr, rd)}
    IN  IF same = {}
        THEN {map[i] \cup {[ptr |-> ptr, hash |-> h, sym |-> sym]}}
        ELSE {(map[i] \ {e}) \cup {[e EXCEPT !.sym = sym]} : e \in same}

\* Sym::from_usize(val) of a symbol type that represents symcap indices
\* panics when val is not one of them.  usize represents them all.
FromUsizeFails(val) == val >= symcap

\* The panic of make_symbol() unwinds out of intern(): it is the first
\* statement that can fail, nothing was changed before it, and new_val is
\* dropped on the way out.
InternPanic(i, inp) ==
    /\ mem' = MemAfterDrop(inp)
    /\ ret' = [BaseRet("panic", i) EXCEPT !.text = Some(InputText(inp))]
    /\ UNCHANGED <<map, values, given>>

\* StringInterner::intern
Intern(i, inp) ==
    IF FromUsizeFails(len(i))
    THEN InternPanic(i, inp)
    ELSE
    /\ len(i) < MaxLen
    /\ \E b \in BoxPlaces(inp) :
         LET new_id  == make_symbol(i)
             new_ref == NewRef(inp, b)
             m       == MemAfterBox(inp, b)
         IN  \E rd \in Views(m, KeyPtrs(i) \cup {new_ref}) :
             \E newmap \in MapInsert(i, m, new_ref, new_id, rd) :
                /\ mem' = m
                /\ values' = [values EXCEPT ![i] = Append(@, b)]
                /\ map' = [map EXCEPT ![i] = newmap]
                /\ ret' = [BaseRet("get_or_intern", i) EXCEPT
                              !.text = Some(InputText(inp)),
                              !.outSym = Some(new_id)]
                /\ given' = [given EXCEPT ![i] = @ \cup {<<InputText(inp), new_id>>}]

\* StringInterner::get_or_intern(val), for the input val
GetOrInternOf(i, inp) ==
    \E rd \in Views(mem, KeyPtrs(i)) :
        LET found == MapGet(i, mem, InputText(inp), rd)
        IN  /\ IF found # {}
               THEN \E e \in found :
                      /\ mem' = MemAfterDrop(inp)
                      /\ ret' = [BaseRet("get_or_intern", i) EXCEPT
                                    !.text = Some(InputText(inp)),
                                    !.outSym = Some(e.sym)]
                      /\ given' = [given EXCEPT
                                    ![i] = @ \cup {<<InputText(inp), e.sym>>}]
                      /\ UNCHANGED <<map, values>>
               ELSE Intern(i, inp)
            /\ UNCHANGED hasher

\* StringInterner::get_or_intern, for whatever a caller may pass
GetOrIntern(i) == \E inp \in Inputs : GetOrInternOf(i, inp)

\* A resolve whose bounds check is off by one: the index len is let
\* through and reads the last entry.
ResolveOffByOne(i, symbol) ==
    IF to_usize(symbol) <= len(i) /\ len(i) > 0
    THEN Some(mem[values[i][IF to_usize(symbol) < len(i)
                            THEN to_usize(symbol) + 1
                            ELSE len(i)]].str)
    ELSE None

\* A resolve that counts the index from the end of the vector.
ResolveFromEnd(i, symbol) ==
    IF to_usize(symbol) < len(i)
    THEN Some(mem[values[i][len(i) - to_usize(symbol)]].str)
    ELSE None

\* StringInterner::resolve
ResolveResult(i, symbol) ==
    IF to_usize(symbol) < len(i)
    THEN Some(mem[values[i][to_usize(symbol) + 1]].str)
    ELSE None

\* resolve(symbol), for the symbol given
ResolveOf(i, symbol) ==
    /\ ret' = [BaseRet("resolve", i) EXCEPT
                  !.sym = Some(symbol),
                  !.outText = ResolveResult(i, symbol)]
    /\ UNCHANGED <<mem, hasher, map, values, given>>

\* resolve, for whatever symbol a caller may pass
Resolve(i) == \E symbol \in Symbols : ResolveOf(i, symbol)

\* StringInterner::get
Get(i) ==
    \E text \in Strings :
    \E rd \in Views(mem, KeyPtrs(i)) :
        LET found == MapGet(i, mem, text, rd)
        IN  /\ \/ /\ found = {}
                  /\ ret' = [BaseRet("get", i) EXCEPT !.text = Some(text)]
               \/ \E e \in found :
                    ret' = [BaseRet("get", i) EXCEPT
                               !.text = Some(text), !.outSym = Some(e.sym)]
            /\ UNCHANGED <<mem, hasher, map, values, given>>

\* StringInterner::len
LenOp(i) ==
    /\ ret' = [BaseRet("len", i) EXCEPT !.outNum = Some(len(i))]
    /\ UNCHANGED <<mem, hasher, map, values, given>>

\* StringInterner::is_empty
IsEmptyOp(i) ==
    /\ ret' = [BaseRet("is_empty", i) EXCEPT !.outBool = Some(is_empty(i))]
    /\ UNCHANGED <<mem, hasher, map, values, given>>

\* self.map.clear()
ClearedMap(i) == {}

\* A clear that forgets the vector: the map is emptied, the entries stay.
ClearKeepsValues(i) == values[i]

\* self.values.clear(): the vector is emptied and every Box<str> is freed.
ClearedValues(i) == << >>

\* The addresses of the Box<str> values a vector holds.
Boxes(v) == {v[k] : k \in 1..Len(v)}

\* Every Box<str> that leaves the vector is dropped, which frees its text.
MemAfterClear(i) ==
    [a \in Addrs |->
        IF a \in Boxes(values[i]) \ Boxes(ClearedValues(i))
        THEN FreeCell
        ELSE mem[a]]

\* StringInterner::clear
Clear(i) ==
    /\ map' = [map EXCEPT ![i] = ClearedMap(i)]
    /\ values' = [values EXCEPT ![i] = ClearedValues(i)]
    /\ mem' = MemAfterClear(i)
    /\ ret' = [BaseRet("clear", i) EXCEPT !.outNum = Some(len(i))]
    /\ given' = [given EXCEPT ![i] = {}]
    /\ UNCHANGED hasher

---------------------------------------------------------------------------
\* The caller's own String.  get_or_intern borrows or takes its input for
\* the call only (no lifetime ties `val` to the interner), so between calls
\* a caller is free to build a String, to change it in place and to drop
\* it.  The model gives the caller one String at a time.

CallerNew ==
    /\ CallerAddrs = {}
    /\ \E a \in AllocPlaces : \E s \in Strings :
         mem' = [mem EXCEPT ![a] = [owner |-> "caller", str |-> s]]
    /\ UNCHANGED <<hasher, map, values, ret, given>>

CallerWrite ==
    /\ \E a \in CallerAddrs : \E s \in Strings \ {mem[a].str} :
         mem' = [mem EXCEPT ![a].str = s]
    /\ UNCHANGED <<hasher, map, values, ret, given>>

CallerDrop ==
    /\ \E a \in CallerAddrs : mem' = [mem EXCEPT ![a] = FreeCell]
    /\ UNCHANGED <<hasher, map, values, ret, given>>

---------------------------------------------------------------------------
\* One interner and its callers.

InitOne == Init /\ hasher[2] = hasher[1]

Next ==
    \/ GetOrIntern(1) /\ UNCHANGED aux
    \/ Resolve(1) /\ UNCHANGED aux
    \/ Get(1) /\ UNCHANGED aux
    \/ LenOp(1) /\ UNCHANGED aux
    \/ IsEmptyOp(1) /\ UNCHANGED aux
    \/ Clear(1) /\ UNCHANGED aux
    \/ CallerNew /\ UNCHANGED aux
    \/ CallerWrite /\ UNCHANGED aux
    \/ CallerDrop /\ UNCHANGED aux

Spec == InitOne /\ [][Next]_vars

---------------------------------------------------------------------------
\* Two interners, filled by get_or_intern and compared with each other.

\* PartialEq for HashMap: the same number of entries, and every entry of
\* map i is found in map j (other.get(key), hashed by j's hasher) with an
\* equal value.  When several entries of j compare equal to a key, which
\* one the probe meets first is open, so the result is a set of outcomes.
MapEqOutcomes(i, j, rd) ==
    IF Cardinality(map[i]) # Cardinality(map[j])
    THEN {FALSE}
    ELSE LET per(e) ==
                LET f == MapGet(j, mem, as_str(mem, e.ptr, rd), rd)
                IN  IF f = {} THEN {FALSE} ELSE {x.sym = e.sym : x \in f}
         IN  {b \in BOOLEAN :
                IF b THEN \A e \in map[i] : TRUE \in per(e)
                     ELSE \E e \in map[i] : FALSE \in per(e)}

\* PartialEq for Vec<Box<str>>: the same texts in the same order.
ValuesEq(i, j) == StoredTexts(i) = StoredTexts(j)

\* derive(PartialEq) for StringInterner: map == map && values == values.
Eq(i, j) ==
    \E rd \in Views(mem, KeyPtrs(i) \cup KeyPtrs(j)) :
    \E b \in MapEqOutcomes(i, j, rd) :
        /\ ret' = [BaseRet("eq", i) EXCEPT !.outBool = Some(b /\ ValuesEq(i, j))]
        /\ UNCHANGED <<mem, hasher, map, values, given>>

NextEq ==
    \/ GetOrIntern(1) /\ UNCHANGED aux
    \/ GetOrIntern(2) /\ UNCHANGED aux
    \/ Eq(1, 2) /\ UNCHANGED aux
    \/ CallerNew /\ UNCHANGED aux
    \/ CallerWrite /\ UNCHANGED aux
    \/ CallerDrop /\ UNCHANGED aux

SpecEq == Init /\ [][NextEq]_vars

---------------------------------------------------------------------------
\* Iteration.  iter() and iter_values() borrow the interner for as long as
\* the iterator lives (the lifetime 'a of Iter and Values), so no &mut self
\* call runs on it meanwhile; into_iter() takes the interner by value.
\* A reader's record is the iterator it holds: whose entries it walks, how
\* many it has passed, what it has yielded so far (a ghost), whether next()
\* has returned None, and for an IntoIter the vector it took over.  For a
\* read through &self that is a single call, the record is the call's
\* argument and what it returned.

\* Interner i is borrowed by an iterator, or was moved into one.
Borrowed(i) == \E r \in Readers : readers[r].op # "idle" /\ readers[r].of = i

\* Interner i was moved into an IntoIter and no longer exists.
Moved(i) ==
    \E r \in Readers : readers[r].op \in {"into", "gone"} /\ readers[r].of = i

\* StringInterner::iter, Iter::new
IterNew(r, i) ==
    /\ readers[r] = Idle
    /\ ~Moved(i)
    /\ readers' = [readers EXCEPT ![r] = [Idle EXCEPT !.op = "iter", !.of = i]]
    /\ UNCHANGED <<core, symcap, stale, pc>>

\* What Iter::next makes of the num-th element of the slice:
\* (Sym::from_usize(num), boxed_str.as_ref()).
IterItem(i, num) == <<from_usize(num), mem[values[i][num + 1]].str>>

\* Iter::next
IterNext(r) ==
    LET it == readers[r]
    IN  /\ it.op = "iter"
        /\ ~it.done
        /\ readers' = [readers EXCEPT ![r] =
                IF it.pos < len(it.of)
                THEN [it EXCEPT !.pos = @ + 1,
                                !.out = Append(@, IterItem(it.of, it.pos))]
                ELSE [it EXCEPT !.done = TRUE]]
        /\ UNCHANGED <<core, symcap, stale, pc>>

\* StringInterner::iter_values, Values::new
ValuesNew(r, i) ==
    /\ readers[r] = Idle
    /\ ~Moved(i)
    /\ readers' = [readers EXCEPT ![r] = [Idle EXCEPT !.op = "values", !.of = i]]
    /\ UNCHANGED <<core, symcap, stale, pc>>

\* What Values::next makes of the num-th element: boxed_str.as_ref().
ValuesItem(i, num) == mem[values[i][num + 1]].str

\* Values::next
ValuesNext(r) ==
    LET it == readers[r]
    IN  /\ it.op = "values"
        /\ ~it.done
        /\ readers' = [readers EXCEPT ![r] =
                IF it.pos < len(it.of)
                THEN [it EXCEPT !.pos = @ + 1,
                                !.out = Append(@, ValuesItem(it.of, it.pos))]
                ELSE [it EXCEPT !.done = TRUE]]
        /\ UNCHANGED <<core, symcap, stale, pc>>

\* The Iter or Values is dropped, or the result of a read is let go of,
\* which ends the reader's borrow.
ReaderDrop(r) ==
    /\ readers[r].op \in {"iter", "values", "resolve", "get", "len"}
    /\ readers' = [readers EXCEPT ![r] = Idle]
    /\ UNCHANGED <<core, symcap, stale, pc>>

\* An into_iter that hands over the vector back to front.
IntoIterReversed(i) == [k \in 1..len(i) |-> values[i][len(i) + 1 - k]]

\* self.values.into_iter(): the vector as the IntoIter takes it over.
IntoIterBoxes(i) == values[i]

\* IntoIterator::into_iter: the vector moves into the iterator; the rest
\* of self, the map and its hasher, is dropped.  Dropping the map frees its
\* table without reading a key: InternalStrRef is Copy and has no Drop.
IntoIterNew(r, i) ==
    /\ readers[r] = Idle
    /\ ~Borrowed(i)
    /\ readers' = [readers EXCEPT ![r] =
            [Idle EXCEPT !.op = "into", !.of = i, !.boxes = IntoIterBoxes(i)]]
    /\ values' = [values EXCEPT ![i] = << >>]
    /\ map' = [map EXCEPT ![i] = {}]
    /\ ret' = BaseRet("into_iter", i)
    /\ UNCHANGED <<mem, hasher, given, symcap, stale, pc>>

\* IntoIter::next: (Sym::from_usize(num), boxed_str.into_string()).  The
\* String keeps the buffer of the Box<str> and belongs to the consumer.
IntoIterNext(r) ==
    LET it == readers[r]
    IN  /\ it.op = "into"
        /\ ~it.done
        /\ IF it.pos < Len(it.boxes)
           THEN LET b == it.boxes[it.pos + 1]
                IN  /\ readers' = [readers EXCEPT ![r] =
                            [it EXCEPT !.pos = @ + 1,
                                       !.out = Append(@, <<from_usize(it.pos),
                                                           mem[b].str>>)]]
                    /\ mem' = [mem EXCEPT ![b].owner = "string"]
           ELSE /\ readers' = [readers EXCEPT ![r] = [it EXCEPT !.done = TRUE]]
                /\ UNCHANGED mem
        /\ UNCHANGED <<hasher, map, values, ret, given, symcap, stale, pc>>

\* The IntoIter is dropped: the entries it has not yielded are freed.
IntoIterDrop(r) ==
    LET it == readers[r]
    IN  /\ it.op = "into"
        /\ readers' = [readers EXCEPT ![r] = [it EXCEPT !.op = "gone"]]
        /\ mem' = [a \in Addrs |->
                    IF \E k \in (it.pos + 1)..Len(it.boxes) : it.boxes[k] = a
                    THEN FreeCell
                    ELSE mem[a]]
        /\ UNCHANGED <<hasher, map, values, ret, given, symcap, stale, pc>>

\* One interner, its callers and one reader that iterates over it.
NextIter ==
    \/ ~Borrowed(1) /\ GetOrIntern(1) /\ UNCHANGED aux
    \/ ~Borrowed(1) /\ Clear(1) /\ UNCHANGED aux
    \/ CallerNew /\ UNCHANGED aux
    \/ CallerWrite /\ UNCHANGED aux
    \/ CallerDrop /\ UNCHANGED aux
    \/ IterNew(1, 1)
    \/ IterNext(1)
    \/ ValuesNew(1, 1)
    \/ ValuesNext(1)
    \/ ReaderDrop(1)
    \/ IntoIterNew(1, 1)
    \/ IntoIterNext(1)
    \/ IntoIterDrop(1)

SpecIter == InitOne /\ [][NextIter]_vars

---------------------------------------------------------------------------
\* Rebuilding: the texts of interner i, as iter_values() yields them, are
\* interned in order into interner j, which new() has just made.
\*     for s in i.iter_values() { j.get_or_intern(s); }

\* new() made interner j and nothing was called on it yet.
Fresh(j) == map[j] = {} /\ values[j] = << >> /\ given[j] = {}

\* i.iter_values(), for the loop that fills interner j
RebuildNew(r, i, j) ==
    /\ i # j
    /\ Fresh(j)
    /\ readers[r] = Idle
    /\ ~Moved(i)
    /\ readers' = [readers EXCEPT ![r] = [Idle EXCEPT !.op = "rebuild", !.of = i]]
    /\ UNCHANGED <<core, symcap, stale, pc>>

\* One turn of the loop: Values::next, and get_or_intern on interner j with
\* the &str it yielded, which borrows the entry of interner i.
RebuildNext(r, j) ==
    LET it == readers[r]
    IN  /\ it.op = "rebuild"
        /\ ~it.done
        /\ IF it.pos < len(it.of)
           THEN /\ readers' = [readers EXCEPT ![r] =
                        [it EXCEPT !.pos = @ + 1,
                                   !.out = Append(@, ValuesItem(it.of, it.pos))]]
                /\ GetOrInternOf(j, [kind |-> "borrowed",
                                     at   |-> values[it.of][it.pos + 1]])
           ELSE /\ readers' = [readers EXCEPT ![r] = [it EXCEPT !.done = TRUE]]
                /\ UNCHANGED core
        /\ UNCHANGED <<symcap, stale, pc>>

\* Interner 1 is filled by its callers, then rebuilt into interner 2.
NextRebuild ==
    \/ ~Borrowed(1) /\ GetOrIntern(1) /\ UNCHANGED aux
    \/ CallerNew /\ UNCHANGED aux
    \/ CallerWrite /\ UNCHANGED aux
    \/ CallerDrop /\ UNCHANGED aux
    \/ RebuildNew(1, 1, 2)
    \/ RebuildNext(1, 2)

SpecRebuild == Init /\ [][NextRebuild]_vars

---------------------------------------------------------------------------
\* An interner whose symbol type represents fewer indices than the vector
\* can hold entries.

\* StringInterner::<Sym>::new() for a symbol type of 1 to MaxLen indices.
InitSym == InitAny /\ hasher[2] = hasher[1] /\ symcap \in 1..MaxLen

NextSym ==
    \/ GetOrIntern(1) /\ UNCHANGED aux
    \/ Resolve(1) /\ UNCHANGED aux
    \/ Clear(1) /\ UNCHANGED aux
    \/ CallerNew /\ UNCHANGED aux
    \/ CallerWrite /\ UNCHANGED aux
    \/ CallerDrop /\ UNCHANGED aux

SpecSym == InitSym /\ [][NextSym]_vars

---------------------------------------------------------------------------
\* One interner whose callers keep the symbols they got before a clear.

\* clear(), while a caller holds on to one of the symbols that
\* get_or_intern has returned until then, if there is one.
ClearNoted(i) ==
    /\ Clear(i)
    /\ IF given[i] = {}
       THEN stale' = {}
       ELSE \E p \in given[i] : stale' = {p}
    /\ UNCHANGED <<readers, symcap, pc>>

\* resolve of the symbol the caller holds from before the clear.
ResolveStale(i) ==
    /\ \E p \in stale : ResolveOf(i, p[2])
    /\ UNCHANGED aux

NextStale ==
    \/ GetOrIntern(1) /\ UNCHANGED aux
    \/ ResolveStale(1)
    \/ ClearNoted(1)
    \/ CallerNew /\ UNCHANGED aux
    \/ CallerWrite /\ UNCHANGED aux
    \/ CallerDrop /\ UNCHANGED aux

SpecStale == InitOne /\ [][NextStale]_vars

---------------------------------------------------------------------------
\* derive(Clone): the clone of an interner, and the original cleared while
\* the clone is in use.

\* The sequence of the addresses of S, lowest first.
RECURSIVE Ascending(_)
Ascending(S) ==
    IF S = {}
    THEN << >>
    ELSE LET a == CHOOSE x \in S : \A y \in S : x <= y
         IN  <<a>> \o Ascending(S \ {a})

\* Vec<Box<str>>::clone: every Box<str> is cloned into an allocation of
\* its own; the allocator may hand out any free addresses.
ClonedValues(i) ==
    {Ascending(S) : S \in {T \in SUBSET FreeAddrs : Cardinality(T) = len(i)}}

\* HashMap::clone: the table is copied entry by entry.  InternalStrRef is
\* Copy, so each key of the copy is the same address as in the original.
ClonedMap(i) == map[i]

\* derive(Clone) for StringInterner: interner j becomes i.clone().
Clone(i, j) ==
    /\ i # j
    /\ Fresh(j)
    /\ ~Moved(i)
    /\ \E v \in ClonedValues(i) :
          /\ values' = [values EXCEPT ![j] = v]
          /\ mem' = [a \in Addrs |->
                        IF \E k \in 1..Len(v) : v[k] = a
                        THEN BoxCell(TextAt(i, (CHOOSE k \in 1..Len(v) : v[k] = a) - 1))
                        ELSE mem[a]]
    /\ map' = [map EXCEPT ![j] = ClonedMap(i)]
    /\ hasher' = [hasher EXCEPT ![j] = hasher[i]]
    /\ given' = [given EXCEPT ![j] = given[i]]
    /\ ret' = BaseRet("clone", i)

NextClone ==
    \/ GetOrIntern(1) /\ UNCHANGED aux
    \/ Clear(1) /\ UNCHANGED aux
    \/ Clone(1, 2) /\ UNCHANGED aux
    \/ Get(2) /\ UNCHANGED aux
    \/ CallerNew /\ UNCHANGED aux
    \/ CallerWrite /\ UNCHANGED aux
    \/ CallerDrop /\ UNCHANGED aux

SpecClone == InitOne /\ [][NextClone]_vars

---------------------------------------------------------------------------
\* clear(), statement by statement.  pc is "clear" between its two
\* statements; no other call runs on the interner meanwhile (&mut self).

\* A clear that empties the vector first and the map second.
ValuesBeforeMap == <<"values", "map">>

\* The statements of clear() in their order:
\*     self.map.clear(); self.values.clear()
ClearStatements == <<"map", "values">>

\* One statement of clear().  HashMap::clear drops the keys without
\* reading them; Vec::clear drops, and so frees, every Box<str>.
ClearStatement(i, what) ==
    IF what = "map"
    THEN /\ map' = [map EXCEPT ![i] = ClearedMap(i)]
         /\ UNCHANGED <<mem, values>>
    ELSE /\ values' = [values EXCEPT ![i] = ClearedValues(i)]
         /\ mem' = MemAfterClear(i)
         /\ UNCHANGED map

\* clear() is called and runs its first statement.
ClearBegin(i) ==
    /\ pc = "run"
    /\ ClearStatement(i, ClearStatements[1])
    /\ pc' = "clear"
    /\ UNCHANGED <<hasher, ret, given, readers, symcap, stale>>

\* clear() runs its second statement and returns.
ClearEnd(i) ==
    /\ pc = "clear"
    /\ ClearStatement(i, ClearStatements[2])
    /\ pc' = "run"
    /\ ret' = [BaseRet("clear", i) EXCEPT !.outNum = Some(len(i))]
    /\ given' = [given EXCEPT ![i] = {}]
    /\ UNCHANGED <<hasher, readers, symcap, stale>>

NextClear ==
    \/ pc = "run" /\ GetOrIntern(1) /\ UNCHANGED aux
    \/ ClearBegin(1)
    \/ ClearEnd(1)
    \/ CallerNew /\ UNCHANGED aux
    \/ CallerWrite /\ UNCHANGED aux
    \/ CallerDrop /\ UNCHANGED aux

SpecClear == InitOne /\ [][NextClear]_vars

---------------------------------------------------------------------------
\* Readers that share one interner (unsafe impl Sync): while no &mut self
\* call runs, each of them calls resolve, get and len and walks iter() and
\* iter_values(), step by step and in any order with the others.

\* Some reader holds an iterator or a result.
Busy == \E r \in Readers : readers[r] # Idle

\* resolve(symbol) by reader r
ResolveRead(r, i) ==
    /\ readers[r] = Idle
    /\ \E symbol \in Symbols :
          readers' = [readers EXCEPT ![r] =
              [Idle EXCEPT !.op = "resolve", !.of = i, !.arg = Some(symbol),
                           !.out = ResolveResult(i, symbol), !.done = TRUE]]
    /\ UNCHANGED <<core, symcap, stale, pc>>

\* get(text) by reader r
GetRead(r, i) ==
    /\ readers[r] = Idle
    /\ \E text \in Strings :
       \E rd \in Views(mem, KeyPtrs(i)) :
       \E out \in {Some(e.sym) : e \in MapGet(i, mem, text, rd)}
                  \cup (IF MapGet(i, mem, text, rd) = {} THEN {None} ELSE {}) :
          readers' = [readers EXCEPT ![r] =
              [Idle EXCEPT !.op = "get", !.of = i, !.arg = Some(text),
                           !.out = out, !.done = TRUE]]
    /\ UNCHANGED <<core, symcap, stale, pc>>

\* len() by reader r
LenRead(r, i) ==
    /\ readers[r] = Idle
    /\ readers' = [readers EXCEPT ![r] =
            [Idle EXCEPT !.op = "len", !.of = i, !.out = Some(len(i)),
                         !.done = TRUE]]
    /\ UNCHANGED <<core, symcap, stale, pc>>

NextRead ==
    \/ ~Busy /\ GetOrIntern(1) /\ UNCHANGED aux
    \/ ~Busy /\ CallerNew /\ UNCHANGED aux
    \/ ~Busy /\ CallerWrite /\ UNCHANGED aux
    \/ ~Busy /\ CallerDrop /\ UNCHANGED aux
    \/ \E r \in Readers : ResolveRead(r, 1)
    \/ \E r \in Readers : GetRead(r, 1)
    \/ \E r \in Readers : LenRead(r, 1)
    \/ \E r \in Readers : IterNew(r, 1)
    \/ \E r \in Readers : IterNext(r)
    \/ \E r \in Readers : ValuesNew(r, 1)
    \/ \E r \in Readers : ValuesNext(r)
    \/ \E r \in Readers : ReaderDrop(r)

SpecRead == InitOne /\ [][NextRead]_vars

---------------------------------------------------------------------------
\* The claims.  Interner 1 is the interner of Spec.

\* The texts passed to get_or_intern since creation or the last clear.
GivenTexts == {p[1] : p \in given[1]}

\* C1: get_or_intern is idempotent: since creation or the last clear, every
\* call of get_or_intern with the same text has returned the same symbol, so
\* no two distinct symbols were issued for equal content.
C1_IdempotentDedup ==
    \A p \in given[1] : \A q \in given[1] : p[1] = q[1] => p[2] = q[2]

\* C2: round trip: every symbol that get_or_intern returned for a text s
\* since creation or the last clear resolves to s, in every later state.
C2_RoundTrip ==
    \A p \in given[1] : p[2] < len(1) /\ TextAt(1, p[2]) = p[1]

\* C3: dense insertion order: the n-th distinct text (0-based) passed to
\* get_or_intern since creation or the last clear receives the index n.
C3_DenseInsertionOrder ==
    [][\A s \in Strings :
          (/\ ret'.op = "get_or_intern"
           /\ ret'.text = Some(s)
           /\ s \notin GivenTexts
           /\ s \in {p[1] : p \in given'[1]})
          => ret'.outSym = Some(Cardinality(GivenTexts))]_vars

\* C4: storage and reverse map are consistent: as many map entries as stored
\* entries, and for every position k the map sends the text of entry k to
\* the symbol k (whatever a read of a key returns).
C4_MapMatchesStorage ==
    /\ Cardinality(map[1]) = len(1)
    /\ \A k \in 0..(len(1) - 1) :
         \A rd \in Views(mem, KeyPtrs(1)) :
            LET found == MapGet(1, mem, TextAt(1, k), rd)
            IN  found # {} /\ \A e \in found : e.sym = k

\* C5: every key of the reverse map is a view of the bytes of exactly one
\* entry that the storage of the interner owns (not of the caller's input).
C5_KeysViewOwnedEntries ==
    \A e \in map[1] : e.ptr \in Boxes(values[1])

\* C6: clear resets the interner: in the state clear leaves, len is 0, get
\* finds no text, resolve finds no symbol, and the first get_or_intern since
\* the clear (or since creation) returns the symbol with index 0, whatever
\* its text and whatever was read or looked up in between.
C6_ClearResets ==
    /\ [](ret.op = "clear" =>
            /\ len(1) = 0
            /\ is_empty(1)
            /\ \A text \in Strings : \A rd \in Views(mem, KeyPtrs(1)) :
                 MapGet(1, mem, text, rd) = {}
            /\ \A symbol \in Symbols : ResolveResult(1, symbol) = None)
    /\ [][(given[1] = {} /\ given'[1] # {} /\ ret'.op = "get_or_intern")
            => ret'.outSym = Some(0)]_vars

\* A clear of an interner that held MaxLen entries has returned.
C6_Witness ==
    /\ ret.op = "clear"
    /\ ret.outNum = Some(MaxLen)
    /\ len(1) = 0

\* C7: resolve is total and bounds-checked: resolve(symbol) is the text of
\* entry i when the symbol's index i is below len, and None otherwise, and a
\* call of resolve changes neither memory nor map nor storage.
C7_ResolveBoundsChecked ==
    /\ [](ret.op = "resolve" =>
            ret.outText = IF ret.sym[1] < len(1)
                          THEN Some(TextAt(1, ret.sym[1]))
                          ELSE None)
    /\ [][(ret'.op = "resolve" /\ ret' # ret)
            => UNCHANGED <<mem, map, values>>]_vars

\* resolve was called with the index len of a full interner and found none.
C7_Witness ==
    /\ ret.op = "resolve"
    /\ len(1) = MaxLen
    /\ ret.sym = Some(MaxLen)
    /\ ret.outText = None

\* C8: get is a reverse lookup: get(text) returns a symbol exactly when the
\* text is stored, and then the symbol of the entry that holds the text,
\* which is the symbol get_or_intern returned for it.
C8_GetIsReverseLookup ==
    ret.op = "get" =>
        LET text == ret.text[1]
        IN  /\ ret.outSym # None <=> \E k \in 0..(len(1) - 1) : TextAt(1, k) = text
            /\ ret.outSym # None =>
                 /\ ret.outSym[1] < len(1)
                 /\ TextAt(1, ret.outSym[1]) = text
                 /\ \A p \in given[1] : p[1] = text => p[2] = ret.outSym[1]

\* C9: len() is the number of distinct texts passed to get_or_intern since
\* creation or the last clear, and is_empty() says whether that number is 0.
C9_LenCountsDistinct ==
    /\ ret.op = "len" => ret.outNum = Some(Cardinality(GivenTexts))
    /\ ret.op = "is_empty" => ret.outBool = Some(Cardinality(GivenTexts) = 0)

\* C10: two interners compare equal exactly when they hold the same number
\* of entries and the same texts in the same order.
C10_EqIsSameTexts ==
    ret.op = "eq" =>
        (ret.outBool = Some(TRUE) <=>
            (len(1) = len(2) /\ StoredTexts(1) = StoredTexts(2)))

\* C11: iter() yields, in insertion order, one pair per entry: the k-th pair
\* is symbol k-1 with the text of entry k-1, every pair satisfies
\* resolve(sym) = Some(text), and no symbol and no text is yielded twice;
\* iter_values() yields the same texts in the same order.
C11_IterYieldsEntries ==
    \A r \in Readers :
        LET it == readers[r]
        IN  /\ it.op \in {"iter", "values"} =>
                  /\ Len(it.out) = it.pos
                  /\ it.pos <= len(it.of)
                  /\ it.done => it.pos = len(it.of)
            /\ it.op = "iter" =>
                  /\ \A k \in 1..it.pos :
                        /\ it.out[k] = <<k - 1, TextAt(it.of, k - 1)>>
                        /\ ResolveResult(it.of, it.out[k][1]) = Some(it.out[k][2])
                  /\ \A k \in 1..it.pos : \A l \in 1..it.pos :
                        k # l => /\ it.out[k][1] # it.out[l][1]
                                 /\ it.out[k][2] # it.out[l][2]
            /\ it.op = "values" =>
                  /\ \A k \in 1..it.pos : it.out[k] = TextAt(it.of, k - 1)
                  /\ \A k \in 1..it.pos : \A l \in 1..it.pos :
                        k # l => it.out[k] # it.out[l]

\* C12: rebuild round trip: when the texts of interner 1, in the order
\* iter_values() yields them, have all been interned into the fresh
\* interner 2, interner 2 holds the same texts at the same indices, so every
\* text has the symbol it has in interner 1, and the two compare equal.
C12_RebuildRoundTrip ==
    \A r \in Readers :
        (readers[r].op = "rebuild" /\ readers[r].done) =>
            /\ StoredTexts(2) = StoredTexts(1)
            /\ \A rd \in Views(mem, KeyPtrs(1) \cup KeyPtrs(2)) :
                  MapEqOutcomes(1, 2, rd) = {TRUE}

C14_IntoIterDrains ==
    /\ [](\A r \in Readers :
            LET it == readers[r]
            IN  it.op = "into" =>
                  /\ Len(it.out) = it.pos
                  /\ it.pos <= Len(it.boxes)
                  /\ it.done => it.pos = Len(it.boxes)
                  /\ \A k \in 1..it.pos :
                        it.out[k] = <<k - 1, mem[it.boxes[k]].str>>
                  /\ map[it.of] = {}
                  /\ values[it.of] = << >>)
    /\ [][\A r \in Readers :
            (readers[r].op = "idle" /\ readers'[r].op = "into") =>
                /\ readers'[r].boxes = values[readers'[r].of]
                /\ mem' = mem]_vars
    /\ [][Moved(1) => UNCHANGED <<map, values, ret>>]_vars

\* An IntoIter has yielded every entry of a full interner.
C14_Witness ==
    \E r \in Readers :
        /\ readers[r].op = "into"
        /\ readers[r].done
        /\ Len(readers[r].out) = MaxLen

\* C15: a symbol issued before the last clear is not told apart from a
\* current one: resolve answers it by position alone, with the text now
\* stored at its index, or None while that index is not in use again.
C15_StaleSymbolResolves ==
    \A p \in stale :
        (ret.op = "resolve" /\ ret.sym = Some(p[2])) =>
            ret.outText = IF p[2] < len(1) THEN Some(TextAt(1, p[2])) ELSE None

\* The hazard: get_or_intern returned a symbol for a text, the interner was
\* cleared, get_or_intern returned the same symbol for another text, and
\* resolve of the symbol returns that other text.
C15_Witness ==
    \E p \in stale : \E q \in given[1] :
        /\ q[2] = p[2]
        /\ q[1] # p[1]
        /\ ret.op = "resolve"
        /\ ret.sym = Some(p[2])
        /\ ret.outText = Some(q[1])

\* C16: a clone owns what it references: every key of the map of the clone
\* (interner 2) references the entry of the clone's own vector that its
\* symbol names, so no key of the clone references memory that clearing or
\* dropping the original frees.
C16_CloneOwnsItsKeys ==
    \A e \in map[2] :
        /\ e.sym < len(2)
        /\ e.ptr = values[2][e.sym + 1]
        /\ mem[e.ptr].owner = "box"

\* C17: clear never leaves a dangling view: between the two statements of
\* clear() the map is already empty, and in no step that frees an entry does
\* the map hold, before or after the step, a key that references it.
C17_ClearMapBeforeValues ==
    /\ [](pc = "clear" => map[1] = {})
    /\ [][\A a \in HeapAddrs :
            (mem[a].owner = "box" /\ mem'[a].owner # "box") =>
                /\ \A e \in map[1] : e.ptr # a
                /\ \A e \in map'[1] : e.ptr # a]_vars

\* clear() of a full interner is between its two statements: the map is
\* empty and every entry is still alive.
C17_Witness ==
    /\ pc = "clear"
    /\ len(1) = MaxLen
    /\ \A k \in 1..len(1) : mem[values[1][k]].owner = "box"

\* C18: stable text addresses: in every step that keeps entry k stored, the
\* entry stays at its address with its text; and in every step that keeps a
\* key in the map, the bytes the key references are alive and stay as they
\* are.
C18_StableTextAddresses ==
    /\ [][\A k \in 1..len(1) :
            Len(values'[1]) >= k =>
                /\ values'[1][k] = values[1][k]
                /\ mem'[values[1][k]] = mem[values[1][k]]]_vars
    /\ [][\A e \in map[1] :
            (\E f \in map'[1] : f.ptr = e.ptr) =>
                /\ mem[e.ptr].owner # "free"
                /\ mem'[e.ptr] = mem[e.ptr]]_vars

\* C19: get_or_intern never changes existing entries: a call leaves every
\* entry and every binding of the map as it was; when the text was already
\* stored it leaves vector and map unchanged, and when it was not, it
\* appends one entry and adds one binding.
C19_GetOrInternKeepsEntries ==
    [][(ret'.op = "get_or_intern" /\ (ret' # ret \/ values' # values \/ map' # map)) =>
          /\ \A k \in 1..len(1) :
                /\ Len(values'[1]) >= k
                /\ values'[1][k] = values[1][k]
                /\ mem'[values[1][k]] = mem[values[1][k]]
          /\ map[1] \subseteq map'[1]
          /\ IF \E k \in 0..(len(1) - 1) : TextAt(1, k) = ret'.text[1]
             THEN UNCHANGED <<map, values>>
             ELSE /\ Len(values'[1]) = len(1) + 1
                  /\ Cardinality(map'[1]) = Cardinality(map[1]) + 1]_vars

\* C20: read sharing is safe: no step of a reader changes the interner or
\* the memory it references, and whatever the other readers do meanwhile,
\* what a reader has got from resolve, get, len, iter or iter_values is what
\* that call returns in the state of the interner, however it is run.
C20_ReadSharingIsSafe ==
    /\ [][(readers' # readers) => UNCHANGED <<mem, hasher, map, values>>]_vars
    /\ [](\A r \in Readers :
            LET it == readers[r]
            IN  /\ it.op = "resolve" => it.out = ResolveResult(it.of, it.arg[1])
                /\ it.op = "get" =>
                      \A rd \in Views(mem, KeyPtrs(it.of)) :
                        LET found == MapGet(it.of, mem, it.arg[1], rd)
                        IN  IF it.out = None
                            THEN found = {}
                            ELSE found # {} /\ \A e \in found : Some(e.sym) = it.out
                /\ it.op = "len" => it.out = Some(len(it.of))
                /\ it.op = "iter" =>
                      /\ it.pos <= len(it.of)
                      /\ it.done => it.pos = len(it.of)
                      /\ it.out = [k \in 1..it.pos |-> IterItem(it.of, k - 1)]
                /\ it.op = "values" =>
                      /\ it.pos <= len(it.of)
                      /\ it.done => it.pos = len(it.of)
                      /\ it.out = [k \in 1..it.pos |-> ValuesItem(it.of, k - 1)])

============================================================================
